---- MODULE Spec2Model ----
(***************************************************************************)
(* Trip half-event ingestion and correlation: the ingestion Lambda         *)
(* (src/src/lambda_kinesis_to_dynamo.py), the stream matcher Lambda        *)
(* (src/src/lambda_dynamo_matcher.py) and the retry wrapper                *)
(* (src/src/utils.py), over one DynamoDB table and its change stream.      *)
(*                                                                         *)
(* Representation.                                                         *)
(*  - A Python str that the code splits, prefixes or sorts (trip_id,       *)
(*    event_type, sk, timestamps) is a sequence of tokens; "#" is a token  *)
(*    of its own, so split("#"), startswith and begins_with are computed.  *)
(*  - A Python dict is a function from field names to values; a key whose  *)
(*    value is None is left out of the function.                           *)
(*  - x.get(k) is Opt(x, k): <<>> for None, <<v>> for the value v.         *)
(*  - datetime.now() is the variable now, in seconds.                      *)
(***************************************************************************)
EXTENDS Integers, Sequences, FiniteSets, TLC

VARIABLES
    table,      \* the DynamoDB table: (trip_id, sk) -> item
    stream,     \* change notifications not yet handed to the matcher
    inv,        \* the matcher invocations: position and locals of each
    now,        \* the wall clock read by datetime.now()
    faulted,    \* whether a store call has failed so far
    ingested,   \* payloads the ingestion path has taken so far
    rt,         \* one call of retry(func, max_attempts, backoff)
    abandoned,  \* trips whose COMPLETED put has exhausted its retries
    ing,        \* one invocation of the ingestion lambda_handler
    mh,         \* one invocation of the matcher lambda_handler
    norm,       \* one call of process_trip_event
    mg,         \* one call of _merge_trip_events
    kr          \* sort keys composed by ingestion and read back by the matcher

vars == <<table, stream, inv, now, faulted, ingested, rt, abandoned, ing, mh, norm, mg, kr>>

-----------------------------------------------------------------------------
(* Bounds of the model *)

MaxClock == 2
MaxIngest == 3
NumInvocations == 2
MaxRetryAttempts == 4
MaxShort == 3
MaxExtra == 2

-----------------------------------------------------------------------------
(* Strings *)

\* The tokens, in the order of the strings they stand for.
Alphabet ==
    <<"#", "1", "2", "3", "4", "5", "6", "7", "8", "9",
      "COMPLETED", "RAW", "STATE", "_v2", "a", "b",
      "trip_begin", "trip_end", "trip_start">>

TokRank(t) == CHOOSE i \in 1..Len(Alphabet) : Alphabet[i] = t

RECURSIVE StrLess(_, _)
StrLess(s, t) ==
    IF s = <<>> THEN t # <<>>
    ELSE IF t = <<>> THEN FALSE
    ELSE IF Head(s) = Head(t) THEN StrLess(Tail(s), Tail(t))
    ELSE TokRank(Head(s)) < TokRank(Head(t))

StartsWith(s, p) == Len(p) <= Len(s) /\ SubSeq(s, 1, Len(p)) = p

RECURSIVE Split(_, _)
Split(s, sep) ==
    IF \A i \in 1..Len(s) : s[i] # sep THEN <<s>>
    ELSE LET i == CHOOSE j \in 1..Len(s) :
                      s[j] = sep /\ \A k \in 1..(j - 1) : s[k] # sep
         IN  <<SubSeq(s, 1, i - 1)>> \o Split(SubSeq(s, i + 1, Len(s)), sep)

TRIP_BEGIN == <<"trip_begin">>
TRIP_START == <<"trip_start">>
TRIP_END == <<"trip_end">>

\* datetime.isoformat() of the clock value t: one token per instant, ordered
\* as the instants are.
IsoFormat(t) == <<Alphabet[t + 1]>>

Day == 24 * 60 * 60

-----------------------------------------------------------------------------
(* Dicts *)

Opt(d, k) == IF k \in DOMAIN d THEN <<d[k]>> ELSE <<>>

\* {**a, **b}
DictUpdate(a, b) ==
    [k \in DOMAIN a \cup DOMAIN b |-> IF k \in DOMAIN b THEN b[k] ELSE a[k]]

\* A dict literal whose None values are left out; fields maps each key to <<>>
\* or <<v>>.
Sparse(fields) ==
    [k \in {n \in DOMAIN fields : fields[n] # <<>>} |-> fields[k][1]]

-----------------------------------------------------------------------------
(* Payload values *)

\* A datetime string: its textual form and the instant it names.  "naive" has
\* no offset, "Z" ends in Z, "utc" ends in +00:00, "bad" does not parse.
DT(form, secs) == [form |-> form, secs |-> secs]

\* bool(x) of an optional string
TruthyStr(o) == o # <<>> /\ o[1] # <<>>

\* bool(x) of an optional number
TruthyNum(o) == o # <<>> /\ o[1] # 0

-----------------------------------------------------------------------------
(* Ingestion: src/src/lambda_kinesis_to_dynamo.py *)

\* dt_str.replace('Z', '+00:00'), datetime.fromisoformat, isoformat; a string
\* that does not parse is passed through.
StandardizeDatetime(v) ==
    IF v.form = "Z" THEN DT("utc", v.secs) ELSE v

DatetimeFields == {"pickup_datetime", "dropoff_datetime", "estimated_dropoff_datetime"}

\* The ranges the validators compare with.
FareInRange(fare) == ~(fare < 0) /\ ~(fare > 1000)

PassengersInRange(passengers) == ~(passengers < 0 \/ passengers > 8)

LocationInRange(pickup_id) == ~(pickup_id < 1 \/ pickup_id > 300)

\* The validators only log their warnings: the data is returned as it came.
ValidateTripStart(data) == data

ValidateTripEnd(data) == data

ValidateAndCleanData(data) ==
    LET event_type == Opt(data, "event_type")
    IN  IF event_type = <<TRIP_BEGIN>> THEN ValidateTripStart(data)
        ELSE IF event_type = <<TRIP_END>> THEN ValidateTripEnd(data)
        ELSE data

\* Decimal(str(value)) keeps the number; numbers are exact in this model.
ApplyTransformations(payload) ==
    ValidateAndCleanData(
        [k \in DOMAIN payload |->
            IF k \in DatetimeFields THEN StandardizeDatetime(payload[k])
            ELSE payload[k]])

RawSk(trip_id, event_type, timestamp) ==
    <<"RAW", "#">> \o trip_id \o <<"#">> \o event_type \o <<"#">> \o timestamp

RawTtlDays == 7

\* MissingIdentity with only None taken as missing.
MissingIdentity_NoneOnly(trip_id, event_type) ==
    trip_id = <<>> \/ event_type = <<>>

\* not trip_id or not event_type
MissingIdentity(trip_id, event_type) ==
    ~TruthyStr(trip_id) \/ ~TruthyStr(event_type)

\* process_trip_event: [ok |-> FALSE] is the ValueError.
ProcessTripEvent(payload, t) ==
    LET trip_id == Opt(payload, "trip_id")
        event_type == Opt(payload, "event_type")
    IN  IF MissingIdentity(trip_id, event_type)
        THEN [ok |-> FALSE, item |-> <<>>]
        ELSE LET timestamp == IsoFormat(t)
                 raw == [trip_id |-> trip_id[1],
                         sk |-> RawSk(trip_id[1], event_type[1], timestamp),
                         event_type |-> event_type[1],
                         ingestion_timestamp |-> timestamp,
                         processing_date |-> t \div Day,
                         ttl |-> t + RawTtlDays * Day]
             IN  [ok |-> TRUE,
                  item |-> <<DictUpdate(raw, ApplyTransformations(payload))>>]

-----------------------------------------------------------------------------
(* The table and its change stream *)

KeyOf(item) == <<item.trip_id, item.sk>>

\* table.put_item(Item=item): an unconditional put, the item replaces any item
\* of the same key.
PutItem(tbl, item) ==
    [k \in DOMAIN tbl \cup {KeyOf(item)} |->
        IF k = KeyOf(item) THEN item ELSE tbl[k]]

MapFields == {"start_event", "end_event"}
NumberFields ==
    {"ttl", "processing_date", "pickup_location_id", "dropoff_location_id",
     "vendor_id", "estimated_fare_amount", "fare_amount", "passenger_count",
     "tip_amount", "trip_distance", "trip_duration_seconds", "fare_variance"}

\* The attribute-value form of an item in a stream record: {"S": ..},
\* {"N": ..} or {"M": ..}.
ToImage(item) ==
    [k \in DOMAIN item |->
        IF k \in MapFields THEN [M |-> item[k]]
        ELSE IF k \in NumberFields THEN [N |-> item[k]]
        ELSE [S |-> item[k]]]

\* The stream records a put produces: INSERT for a new key, MODIFY for a
\* changed item, none when the item is written unchanged.
StreamRecords(tbl, item) ==
    IF KeyOf(item) \notin DOMAIN tbl
    THEN {[eventName |-> "INSERT", NewImage |-> ToImage(item)]}
    ELSE IF tbl[KeyOf(item)] = item THEN {}
    ELSE {[eventName |-> "MODIFY", NewImage |-> ToImage(item)]}

-----------------------------------------------------------------------------
(* Matcher, pure parts: src/src/lambda_dynamo_matcher.py *)

CompletedSk(trip_id) == <<"COMPLETED", "#">> \o trip_id

StateSk(trip_id) == <<"STATE", "#">> \o trip_id

CompletedKey(trip_id) == <<trip_id, CompletedSk(trip_id)>>

StateKey(trip_id) == <<trip_id, StateSk(trip_id)>>

\* _extract_string_value: the "S" of the attribute, else str() of the
\* attribute value itself.
ExtractStringValue(image, key) ==
    IF key \notin DOMAIN image THEN <<>>
    ELSE IF "S" \in DOMAIN image[key] THEN <<image[key].S>>
    ELSE <<<<"repr">>>>

\* _extract_value: S, N and BOOL are unwrapped, NULL is None, and any other
\* attribute (a map, a list) is returned as the attribute-value dict it is.
ExtractValue(image, key) ==
    IF key \notin DOMAIN image THEN <<>>
    ELSE IF "S" \in DOMAIN image[key] THEN <<image[key].S>>
    ELSE IF "N" \in DOMAIN image[key] THEN <<image[key].N>>
    ELSE IF "BOOL" \in DOMAIN image[key] THEN <<image[key].BOOL>>
    ELSE IF "NULL" \in DOMAIN image[key] THEN <<>>
    ELSE <<image[key]>>

ConvertDynamoImageToItem(image) ==
    Sparse([k \in DOMAIN image |-> ExtractValue(image, k)])

\* counterpart_type = "trip_end" if event_type == "trip_begin" else "trip_begin"
CounterpartType(event_type) ==
    IF event_type = TRIP_BEGIN THEN TRIP_END ELSE TRIP_BEGIN

\* The kinds _handle_raw_event goes on with.
MatchedEventTypes == {TRIP_START, TRIP_END}

\* The kind _handle_state_event queries for an orphaned end.
StateCounterpartType == TRIP_START

RECURSIVE SortBySk(_)
SortBySk(items) ==
    IF items = {} THEN <<>>
    ELSE LET first == CHOOSE x \in items :
                          \A y \in items : y = x \/ StrLess(x.sk, y.sk)
         IN  <<first>> \o SortBySk(items \ {first})

\* table.query(trip_id = :trip_id AND begins_with(sk, :sk_prefix)): the
\* matching items in ascending order of sk.
Query(tbl, trip_id, sk_prefix) ==
    SortBySk({tbl[k] : k \in {q \in DOMAIN tbl :
                                 q[1] = trip_id /\ StartsWith(q[2], sk_prefix)}})

CounterpartPrefix(trip_id, event_type) ==
    <<"RAW", "#">> \o trip_id \o <<"#">> \o event_type

\* _handle_raw_event: sk.split("#")[2], None when there are fewer than three
\* parts.
SkEventType(sk) ==
    LET sk_parts == Split(sk, "#")
    IN  IF Len(sk_parts) < 3 THEN <<>> ELSE <<sk_parts[3]>>

\* The item _find_counterpart_event picks from the query's items.
PickCounterpart(items) == IF items # <<>> THEN <<items[1]>> ELSE <<>>

\* datetime.fromisoformat(str(v).replace('Z', '+00:00')): <<>> when it raises,
\* else whether the datetime carries an offset, and its instant.
ParseDatetime(v) ==
    IF "form" \notin DOMAIN v \/ v.form = "bad" THEN <<>>
    ELSE <<[aware |-> v.form \in {"Z", "utc"}, secs |-> v.secs]>>

\* (dropoff_dt - pickup_dt).total_seconds(); a naive and an aware datetime do
\* not subtract (TypeError), and the except leaves trip_duration None.
TripDuration(pickup_time, dropoff_time) ==
    IF pickup_time = <<>> \/ dropoff_time = <<>> THEN <<>>
    ELSE LET p == ParseDatetime(pickup_time[1])
             d == ParseDatetime(dropoff_time[1])
         IN  IF p = <<>> \/ d = <<>> THEN <<>>
             ELSE IF p[1].aware # d[1].aware THEN <<>>
             ELSE <<d[1].secs - p[1].secs>>

\* x.get(key, 0)
GetOrZero(d, key) == IF key \in DOMAIN d THEN <<d[key]>> ELSE <<0>>

FareVariance(estimated_fare, actual_fare) ==
    IF TruthyNum(estimated_fare) /\ TruthyNum(actual_fare)
    THEN <<actual_fare[1] - estimated_fare[1]>>
    ELSE <<>>

CompletedTtlDays == 90

StateTtlDays == 30

\* _merge_trip_events, read at clock value t
MergeTripEvents(trip_id, start_event, end_event, t) ==
    LET pickup_time == Opt(start_event, "pickup_datetime")
        dropoff_time == Opt(end_event, "dropoff_datetime")
        trip_duration == TripDuration(pickup_time, dropoff_time)
        estimated_fare == GetOrZero(start_event, "estimated_fare_amount")
        actual_fare == GetOrZero(end_event, "fare_amount")
        fare_variance == FareVariance(estimated_fare, actual_fare)
    IN  Sparse(
          [trip_id |-> <<trip_id>>,
           sk |-> <<CompletedSk(trip_id)>>,
           status |-> <<"completed">>,
           pickup_location_id |-> Opt(start_event, "pickup_location_id"),
           dropoff_location_id |-> Opt(start_event, "dropoff_location_id"),
           vendor_id |-> Opt(start_event, "vendor_id"),
           pickup_datetime |-> pickup_time,
           estimated_dropoff_datetime |-> Opt(start_event, "estimated_dropoff_datetime"),
           estimated_fare_amount |-> estimated_fare,
           dropoff_datetime |-> dropoff_time,
           rate_code |-> Opt(end_event, "rate_code"),
           passenger_count |-> Opt(end_event, "passenger_count"),
           trip_distance |-> Opt(end_event, "trip_distance"),
           fare_amount |-> actual_fare,
           tip_amount |-> Opt(end_event, "tip_amount"),
           payment_type |-> Opt(end_event, "payment_type"),
           trip_type |-> Opt(end_event, "trip_type"),
           trip_duration_seconds |->
               IF TruthyNum(trip_duration) THEN trip_duration ELSE <<>>,
           fare_variance |-> fare_variance,
           completion_timestamp |-> <<IsoFormat(t)>>,
           processing_date |-> <<t \div Day>>,
           matched_by |-> <<"stream_matcher">>,
           ttl |-> <<t + CompletedTtlDays * Day>>])

\* StateUpdate with the expiry of a RAW record.
StateUpdate_RawExpiry(trip_id, start_event, end_event, t) ==
    [trip_id |-> trip_id,
     sk |-> StateSk(trip_id),
     status |-> "COMPLETED",
     start_event |-> start_event,
     end_event |-> end_event,
     last_updated |-> IsoFormat(t),
     completed_by |-> "stream_matcher",
     ttl |-> t + RawTtlDays * Day]

\* The item _update_trip_state_to_completed puts, read at clock value t
StateUpdate(trip_id, start_event, end_event, t) ==
    [trip_id |-> trip_id,
     sk |-> StateSk(trip_id),
     status |-> "COMPLETED",
     start_event |-> start_event,
     end_event |-> end_event,
     last_updated |-> IsoFormat(t),
     completed_by |-> "stream_matcher",
     ttl |-> t + StateTtlDays * Day]

-----------------------------------------------------------------------------
(* retry: src/src/utils.py *)

DefaultMaxAttempts == 3

\* RetryOutcome with the last attempt given up one pass early.
RetryOutcome_GivesUpEarly(attempt, max_attempts, ok) ==
    IF ok THEN "return"
    ELSE IF attempt >= max_attempts - 1 THEN "raise"
    ELSE "sleep"

\* RetryOutcome with func's result dropped before the last attempt.
RetryOutcome_IgnoresResult(attempt, max_attempts, ok) ==
    IF attempt = max_attempts THEN (IF ok THEN "return" ELSE "raise")
    ELSE "sleep"

\* One pass of retry's loop body, after func returned (ok) or raised:
\* "return" the result, "raise" the error, or "sleep" and go round again.
RetryOutcome(attempt, max_attempts, ok) ==
    IF ok THEN "return"
    ELSE IF attempt = max_attempts THEN "raise"
    ELSE "sleep"

\* backoff * (2 ** (attempt - 1))
SleepBase(backoff, attempt) == backoff * (2 ^ (attempt - 1))

-----------------------------------------------------------------------------
(* Inputs *)

TripIds == {<<"a">>}

\* The kinds kinesis_producer.main tags its events with.
ProducerBeginType == TRIP_BEGIN

ProducerEndType == TRIP_END

BeginPayloads ==
    {[trip_id |-> t, event_type |-> et, pickup_location_id |-> 10,
      vendor_id |-> 1, pickup_datetime |-> DT("naive", 600),
      estimated_fare_amount |-> 10] :
        t \in TripIds, et \in {ProducerBeginType, TRIP_START}}

\* The END of a trip: one with its values in the validators' ranges, one with
\* fare_amount and passenger_count outside them.
EndValues == {[fare |-> 12, passengers |-> 1], [fare |-> 50000, passengers |-> 9]}

EndPayloads ==
    {[trip_id |-> t, event_type |-> ProducerEndType,
      dropoff_datetime |-> DT("naive", 1800), fare_amount |-> v.fare,
      passenger_count |-> v.passengers] :
        t \in TripIds, v \in EndValues}

Payloads == BeginPayloads \cup EndPayloads

\* A STATE item of status ORPHANED_END carrying the END item inline, as
\* _handle_state_event reads it.
OrphanedEndState(end_item) ==
    [trip_id |-> end_item.trip_id,
     sk |-> StateSk(end_item.trip_id),
     status |-> "ORPHANED_END",
     end_event |-> end_item]

-----------------------------------------------------------------------------
(* State *)

Invocations == 1..NumInvocations

\* An invocation between two stream records.  The last three fields record
\* what the invocation in progress has seen and done.
IdleInvocation ==
    [pc |-> "idle", src |-> "none", trip_id |-> <<>>, event_type |-> <<>>,
     image |-> <<>>, start_event |-> <<>>, end_event |-> <<>>, item |-> <<>>,
     attempt |-> 0,
     completedAtStart |-> FALSE, sawAbsent |-> FALSE, wrote |-> FALSE]

IdleRetry ==
    [pc |-> "idle", max_attempts |-> 0, backoff |-> 0, attempt |-> 0,
     calls |-> 0, sleeps |-> <<>>, result |-> <<>>, error |-> <<>>,
     firstOk |-> 0]

\* The ingestion lambda_handler before it is invoked.  records is
\* event['Records']; faults says which store calls may fail in this run; the
\* fields from flushes on record what the invocation has done.
IdleIngest ==
    [pc |-> "idle", records |-> <<>>, faults |-> "none", pos |-> 1,
     batch_items |-> <<>>, processed_count |-> 0, error_count |-> 0,
     events_by_type |-> <<>>, after |-> "loop", idx |-> 0, attempt |-> 0,
     flushes |-> <<>>, written |-> {}, tried |-> {}, lost |-> {}, dlq |-> <<>>]

\* The matcher lambda_handler before it is invoked.  records is
\* event['Records'], the stream records in the order of their writes.
IdleMatcherHandler ==
    [pc |-> "idle", records |-> <<>>, pos |-> 1, processed_count |-> 0,
     error_count |-> 0, matched_trips |-> <<>>]

IdleNorm == [pc |-> "idle", payload |-> <<>>, result |-> <<>>]

IdleMerge ==
    [pc |-> "idle", start_event |-> <<>>, end_event |-> <<>>, result |-> <<>>]

IdleKeys ==
    [pc |-> "idle", payloads |-> <<>>, items |-> <<>>, parsed |-> <<>>,
     found |-> <<>>]

Init ==
    /\ table = <<>>
    /\ stream = {}
    /\ inv = [i \in Invocations |-> IdleInvocation]
    /\ now = 1
    /\ faulted = FALSE
    /\ ingested = 0
    /\ rt = IdleRetry
    /\ abandoned = {}
    /\ ing = IdleIngest
    /\ mh = IdleMatcherHandler
    /\ norm = IdleNorm
    /\ mg = IdleMerge
    /\ kr = IdleKeys

-----------------------------------------------------------------------------
(* Environment *)

Tick ==
    /\ now < MaxClock
    /\ now' = now + 1
    /\ UNCHANGED <<table, stream, inv, faulted, ingested, rt, abandoned, ing, mh, norm, mg, kr>>

\* lambda_kinesis_to_dynamo.lambda_handler on a batch of one record: the
\* record is normalised and the batch of one is flushed to the table.
IngestRecord(payload) ==
    /\ ingested < MaxIngest
    /\ LET r == ProcessTripEvent(payload, now)
       IN  /\ r.ok
           /\ table' = PutItem(table, r.item[1])
           /\ stream' = stream \cup StreamRecords(table, r.item[1])
    /\ ingested' = ingested + 1
    /\ UNCHANGED <<inv, now, faulted, rt, abandoned, ing, mh, norm, mg, kr>>

\* A stream record of a STATE item of status ORPHANED_END reaches the matcher.
StateRecordArrives(payload) ==
    /\ ingested < MaxIngest
    /\ LET r == ProcessTripEvent(payload, now)
       IN  /\ r.ok
           /\ stream' = stream \cup
                 {[eventName |-> "INSERT",
                   NewImage |-> ToImage(OrphanedEndState(r.item[1]))]}
    /\ ingested' = ingested + 1
    /\ UNCHANGED <<table, inv, now, faulted, rt, abandoned, ing, mh, norm, mg, kr>>

-----------------------------------------------------------------------------
(* Matcher, one invocation per stream record *)

\* Route with a STATE record of any status handled as an orphaned end.
Route_AnyState(record) ==
    LET skip == [to |-> "idle", src |-> "none", trip_id |-> <<>>,
                 event_type |-> <<>>]
    IN  IF record.eventName \notin {"INSERT", "MODIFY"} THEN skip
        ELSE
          LET trip_id == ExtractStringValue(record.NewImage, "trip_id")
              sk == ExtractStringValue(record.NewImage, "sk")
          IN  IF ~TruthyStr(trip_id) \/ ~TruthyStr(sk) THEN skip
              ELSE IF StartsWith(sk[1], <<"RAW", "#">>) THEN
                LET sk_parts == Split(sk[1], "#")
                IN  IF Len(sk_parts) < 3 THEN skip
                    ELSE IF sk_parts[3] \notin MatchedEventTypes THEN skip
                    ELSE [to |-> "check", src |-> "RAW", trip_id |-> trip_id[1],
                          event_type |-> sk_parts[3]]
              ELSE IF StartsWith(sk[1], <<"STATE", "#">>) THEN
                [to |-> "squery", src |-> "STATE", trip_id |-> trip_id[1],
                 event_type |-> <<>>]
              ELSE skip

\* process_stream_record, _handle_raw_event and _handle_state_event up to
\* their first store call: where the record is routed, and what was parsed.
Route(record) ==
    LET skip == [to |-> "idle", src |-> "none", trip_id |-> <<>>,
                 event_type |-> <<>>]
    IN  IF record.eventName \notin {"INSERT", "MODIFY"} THEN skip
        ELSE
          LET trip_id == ExtractStringValue(record.NewImage, "trip_id")
              sk == ExtractStringValue(record.NewImage, "sk")
          IN  IF ~TruthyStr(trip_id) \/ ~TruthyStr(sk) THEN skip
              ELSE IF StartsWith(sk[1], <<"RAW", "#">>) THEN
                LET sk_parts == Split(sk[1], "#")
                IN  IF Len(sk_parts) < 3 THEN skip
                    ELSE IF sk_parts[3] \notin MatchedEventTypes THEN skip
                    ELSE [to |-> "check", src |-> "RAW", trip_id |-> trip_id[1],
                          event_type |-> sk_parts[3]]
              ELSE IF StartsWith(sk[1], <<"STATE", "#">>) THEN
                IF ExtractStringValue(record.NewImage, "status") = <<"ORPHANED_END">>
                THEN [to |-> "squery", src |-> "STATE", trip_id |-> trip_id[1],
                      event_type |-> <<>>]
                ELSE skip
              ELSE skip

\* lambda_handler takes a stream record and process_stream_record routes it.
\* The invocations are interchangeable: a record goes to the first idle one.
MatcherStart(i) ==
    /\ inv[i].pc = "idle"
    /\ \A j \in 1..(i - 1) : inv[j].pc # "idle"
    /\ \E record \in stream :
         /\ stream' = stream \ {record}
         /\ LET r == Route(record)
            IN  inv' = [inv EXCEPT ![i] =
                  IF r.to = "idle" THEN IdleInvocation
                  ELSE [IdleInvocation EXCEPT
                          !.pc = r.to, !.src = r.src, !.trip_id = r.trip_id,
                          !.event_type = r.event_type,
                          !.image = <<record.NewImage>>,
                          !.completedAtStart =
                              CompletedKey(r.trip_id) \in DOMAIN table]]
    /\ UNCHANGED <<table, now, faulted, ingested, rt, abandoned, ing, mh, norm, mg, kr>>

\* _completed_trip_exists: get_item; an exception is logged and answers False.
CompletedTripExists(i, ok) ==
    /\ inv[i].pc = "check"
    /\ faulted' = (faulted \/ ~ok)
    /\ LET exists == ok /\ CompletedKey(inv[i].trip_id) \in DOMAIN table
       IN  inv' = [inv EXCEPT ![i] =
             IF exists THEN IdleInvocation
             ELSE [@ EXCEPT !.pc = "query", !.sawAbsent = ok]]
    /\ UNCHANGED <<table, stream, now, ingested, rt, abandoned, ing, mh, norm, mg, kr>>

\* AfterCompletedPut with the put's error swallowed before the STATE write.
AfterCompletedPut_Swallows(res) ==
    IF res = "sleep" THEN "putC" ELSE "putS"

\* Where _create_completed_trip / _create_completed_trip_from_state go after
\* retry(put_item(completed_trip)): on to the STATE write when it returned,
\* out through the except when it raised.
AfterCompletedPut(res) ==
    IF res = "return" THEN "putS"
    ELSE IF res = "raise" THEN "idle"
    ELSE "putC"

\* The locals after a counterpart lookup that found `found` (<<>>: nothing, or
\* the query failed): the merge when there is one.
AfterLookup(i, found, start_event, end_event) ==
    IF found = <<>> THEN IdleInvocation
    ELSE [inv[i] EXCEPT
            !.pc = "putC", !.attempt = 1,
            !.start_event = <<start_event>>, !.end_event = <<end_event>>,
            !.item = <<MergeTripEvents(inv[i].trip_id, start_event,
                                       end_event, now)>>]

\* _find_counterpart_event: the first item of the query, None when there is
\* none or when the query raises.
FindCounterpart(tbl, trip_id, event_type, ok) ==
    IF ok
    THEN PickCounterpart(Query(tbl, trip_id, CounterpartPrefix(trip_id, event_type)))
    ELSE <<>>

\* _handle_raw_event from the counterpart query on, and _create_completed_trip
\* up to its put.
FindCounterpartEvent(i, ok) ==
    /\ inv[i].pc = "query"
    /\ faulted' = (faulted \/ ~ok)
    /\ LET found == FindCounterpart(table, inv[i].trip_id,
                                    CounterpartType(inv[i].event_type), ok)
           current == ConvertDynamoImageToItem(inv[i].image[1])
       IN  inv' = [inv EXCEPT ![i] =
             IF found = <<>> THEN AfterLookup(i, found, <<>>, <<>>)
             ELSE IF inv[i].event_type = TRIP_START
             THEN AfterLookup(i, found, current, found[1])
             ELSE AfterLookup(i, found, found[1], current)]
    /\ UNCHANGED <<table, stream, now, ingested, rt, abandoned, ing, mh, norm, mg, kr>>

\* _handle_state_event for ORPHANED_END, and _create_completed_trip_from_state
\* up to its put.
FindStartForOrphanedEnd(i, ok) ==
    /\ inv[i].pc = "squery"
    /\ faulted' = (faulted \/ ~ok)
    /\ LET found == FindCounterpart(table, inv[i].trip_id,
                                    StateCounterpartType, ok)
           end_event_data == ExtractValue(inv[i].image[1], "end_event")
       IN  inv' = [inv EXCEPT ![i] =
             IF found = <<>> \/ end_event_data = <<>>
             THEN AfterLookup(i, <<>>, <<>>, <<>>)
             ELSE AfterLookup(i, found, found[1], end_event_data[1])]
    /\ UNCHANGED <<table, stream, now, ingested, rt, abandoned, ing, mh, norm, mg, kr>>

\* One attempt of retry(lambda: table.put_item(Item=completed_trip)); when it
\* returns, _update_trip_state_to_completed builds its item.
PutCompleted(i, ok) ==
    /\ inv[i].pc = "putC"
    /\ faulted' = (faulted \/ ~ok)
    /\ LET res == RetryOutcome(inv[i].attempt, DefaultMaxAttempts, ok)
           to == AfterCompletedPut(res)
       IN  /\ table' = IF ok THEN PutItem(table, inv[i].item[1]) ELSE table
           /\ stream' = IF ok THEN stream \cup StreamRecords(table, inv[i].item[1])
                        ELSE stream
           /\ inv' = [inv EXCEPT ![i] =
                IF to = "putS"
                THEN [@ EXCEPT !.pc = "putS", !.attempt = 1, !.wrote = ok,
                        !.item = <<StateUpdate(inv[i].trip_id,
                                               inv[i].start_event[1],
                                               inv[i].end_event[1], now)>>]
                ELSE IF to = "idle" THEN IdleInvocation
                ELSE [@ EXCEPT !.attempt = @ + 1]]
           /\ abandoned' = IF res = "raise"
                           THEN abandoned \cup {inv[i].trip_id}
                           ELSE abandoned
    /\ UNCHANGED <<now, ingested, rt, ing, mh, norm, mg, kr>>

\* One attempt of retry(lambda: table.put_item(Item=state_update)); the error
\* of an exhausted retry is logged by _update_trip_state_to_completed.
PutState(i, ok) ==
    /\ inv[i].pc = "putS"
    /\ faulted' = (faulted \/ ~ok)
    /\ LET res == RetryOutcome(inv[i].attempt, DefaultMaxAttempts, ok)
       IN  /\ table' = IF ok THEN PutItem(table, inv[i].item[1]) ELSE table
           /\ stream' = IF ok THEN stream \cup StreamRecords(table, inv[i].item[1])
                        ELSE stream
           /\ inv' = [inv EXCEPT ![i] =
                IF res = "sleep" THEN [@ EXCEPT !.attempt = @ + 1]
                ELSE IdleInvocation]
    /\ UNCHANGED <<now, ingested, rt, abandoned, ing, mh, norm, mg, kr>>

-----------------------------------------------------------------------------
(* Ingestion lambda_handler: src/src/lambda_kinesis_to_dynamo.py *)

BatchSize == 25

\* BatchFull with the flush one item late.
BatchFull_Late(n) == n > BatchSize

\* len(batch_items) >= batch_size
BatchFull(n) == n >= BatchSize

\* A Kinesis record: data is <<payload>>, or <<>> when base64/json decoding
\* raises.
Undecodable == [data |-> <<>>]

Decodable(payload) == [data |-> <<payload>>]

\* The payload with no trip_id.
WithoutTripId(payload) == [k \in DOMAIN payload \ {"trip_id"} |-> payload[k]]

\* CountUp with the count started again at every record.
CountUp_Resets(d, k) ==
    [x \in DOMAIN d \cup {k} |-> IF x # k THEN d[x] ELSE 1]

\* events_by_type[event_type] = events_by_type.get(event_type, 0) + 1
CountUp(d, k) ==
    [x \in DOMAIN d \cup {k} |->
        IF x # k THEN d[x] ELSE IF k \in DOMAIN d THEN d[k] + 1 ELSE 1]

\* The except of the loop with the error raised again instead of counted.
AfterRecordError_Aborts(h) ==
    [h EXCEPT !.error_count = @ + 1, !.pc = "raised"]

\* The except of the loop: the error is counted and logged, no dead-letter
\* send is made (the call is commented out), and the loop goes on.
AfterRecordError(h) ==
    [h EXCEPT !.error_count = @ + 1, !.pos = @ + 1]

\* The try of the loop after process_trip_event returned raw_item: the kind is
\* counted, the item is added to the batch, and the batch is flushed when
\* full.
Accumulate(h, raw_item) ==
    LET batch == Append(h.batch_items, [pos |-> h.pos, item |-> raw_item])
    IN  [h EXCEPT !.pos = @ + 1,
                  !.events_by_type = CountUp(@, raw_item.event_type),
                  !.batch_items = batch,
                  !.pc = IF BatchFull(Len(batch)) THEN "batch" ELSE "loop",
                  !.after = "loop"]

\* After _process_batch returned: processed_count += len(batch_items), the
\* batch is emptied, and the handler goes on with the loop or returns.
AfterFlush(h) ==
    [h EXCEPT !.processed_count = @ + Len(h.batch_items),
              !.batch_items = <<>>,
              !.pc = IF h.after = "loop" THEN "loop" ELSE "returned",
              !.idx = 0, !.attempt = 0]

\* One put on the table with the stream record it produces, st being the
\* table and the stream records so far.
PutAndNotify(st, item) ==
    LET produced == StreamRecords(st.table, item)
    IN  [table |-> PutItem(st.table, item),
         records |-> IF produced = {} THEN st.records
                     ELSE Append(st.records, CHOOSE r \in produced : TRUE)]

\* The batch writer's puts, in the order of the batch.
RECURSIVE BatchPut(_, _)
BatchPut(st, batch) ==
    IF batch = <<>> THEN st
    ELSE BatchPut(PutAndNotify(st, Head(batch).item), Tail(batch))

\* The record positions of a batch.
Positions(batch) == {batch[n].pos : n \in 1..Len(batch)}

\* AfterIndividualWrite with the fallback loop left at the first write that
\* fails for good.
AfterIndividualWrite_Aborts(h, res) ==
    IF res = "sleep" THEN [h EXCEPT !.attempt = @ + 1]
    ELSE IF res = "return" /\ h.idx < Len(h.batch_items)
    THEN [h EXCEPT !.idx = @ + 1, !.attempt = 1]
    ELSE AfterFlush(h)

\* The fallback loop of _process_batch after one attempt of write_raw_event:
\* the retry goes round, or the loop moves to the next item, whether the
\* write returned or raised; after the last item _process_batch returns.
AfterIndividualWrite(h, res) ==
    IF res = "sleep" THEN [h EXCEPT !.attempt = @ + 1]
    ELSE IF h.idx < Len(h.batch_items)
    THEN [h EXCEPT !.idx = @ + 1, !.attempt = 1]
    ELSE AfterFlush(h)

\* One pass of the handler's loop: the record is decoded and normalised, then
\* added to the batch or counted as an error.
IngestTakesRecord ==
    /\ ing.pc = "loop"
    /\ ing.pos <= Len(ing.records)
    /\ LET record == ing.records[ing.pos]
           r == IF record.data = <<>> THEN [ok |-> FALSE, item |-> <<>>]
                ELSE ProcessTripEvent(record.data[1], now)
       IN  ing' = IF r.ok THEN Accumulate(ing, r.item[1])
                  ELSE AfterRecordError(ing)
    /\ UNCHANGED <<table, stream, inv, now, faulted, ingested, rt, abandoned, mh, norm, mg, kr>>

\* After the loop: the remaining items are flushed, or the handler returns
\* its summary.
IngestLoopEnds ==
    /\ ing.pc = "loop"
    /\ ing.pos > Len(ing.records)
    /\ ing' = IF ing.batch_items # <<>>
              THEN [ing EXCEPT !.pc = "batch", !.after = "return"]
              ELSE [ing EXCEPT !.pc = "returned"]
    /\ UNCHANGED <<table, stream, inv, now, faulted, ingested, rt, abandoned, mh, norm, mg, kr>>

\* _process_batch, the batch writer: all items are written, or the write
\* raises and the fallback loop starts.
BatchWrite(ok) ==
    /\ ing.pc = "batch"
    /\ faulted' = (faulted \/ ~ok)
    /\ LET st == BatchPut([table |-> table, records |-> mh.records],
                          ing.batch_items)
           flushed == [ing EXCEPT
                         !.flushes = Append(@,
                             [items |-> Positions(ing.batch_items),
                              batch_ok |-> ok])]
       IN  /\ table' = IF ok THEN st.table ELSE table
           /\ mh' = IF ok THEN [mh EXCEPT !.records = st.records] ELSE mh
           /\ ing' = IF ok
                     THEN AfterFlush([flushed EXCEPT
                              !.written = @ \cup Positions(ing.batch_items)])
                     ELSE [flushed EXCEPT !.pc = "single", !.idx = 1,
                                          !.attempt = 1]
    /\ UNCHANGED <<stream, inv, now, ingested, rt, abandoned, norm, mg, kr>>

\* One attempt of retry(put_item) in write_raw_event for the item the
\* fallback loop is at.
WriteRawEvent(ok) ==
    /\ ing.pc = "single"
    /\ faulted' = (faulted \/ ~ok)
    /\ LET entry == ing.batch_items[ing.idx]
           res == RetryOutcome(ing.attempt, DefaultMaxAttempts, ok)
           st == PutAndNotify([table |-> table, records |-> mh.records],
                              entry.item)
           logged == [ing EXCEPT
                        !.tried = @ \cup {entry.pos},
                        !.written = IF ok THEN @ \cup {entry.pos} ELSE @,
                        !.lost = IF res = "raise" THEN @ \cup {entry.pos}
                                 ELSE @]
       IN  /\ table' = IF ok THEN st.table ELSE table
           /\ mh' = IF ok THEN [mh EXCEPT !.records = st.records] ELSE mh
           /\ ing' = AfterIndividualWrite(logged, res)
    /\ UNCHANGED <<stream, inv, now, ingested, rt, abandoned, norm, mg, kr>>

-----------------------------------------------------------------------------
(* Matcher lambda_handler over the stream records of the ingestion's writes *)

\* A stream record without NewImage (a stream of view type KEYS_ONLY):
\* record["dynamodb"]["NewImage"] raises.
KeysOnlyRecord == [eventName |-> "INSERT"]

\* process_stream_record raises on the record.
RecordRaises(record) ==
    record.eventName \in {"INSERT", "MODIFY"} /\ "NewImage" \notin DOMAIN record

\* The record is the notification of a COMPLETED record.
IsCompletedRecord(record) ==
    /\ record.eventName \in {"INSERT", "MODIFY"}
    /\ LET sk == ExtractStringValue(record.NewImage, "sk")
       IN  TruthyStr(sk) /\ StartsWith(sk[1], <<"COMPLETED", "#">>)

\* One pass of the handler's loop: the record is handed to
\* process_stream_record, or its error is counted.  Nothing raises out of
\* process_stream_record once the record is routed, so processed_count is
\* counted as the record is handed over.
MatcherTakesRecord ==
    /\ ing.pc = "returned"
    /\ mh.pc # "returned"
    /\ mh.pos <= Len(mh.records)
    /\ \A i \in Invocations : inv[i].pc = "idle"
    /\ LET record == mh.records[mh.pos]
       IN  IF RecordRaises(record)
           THEN /\ mh' = [mh EXCEPT !.pc = "loop", !.pos = @ + 1,
                                    !.error_count = @ + 1]
                /\ inv' = inv
           ELSE LET r == Route(record)
                IN  /\ mh' = [mh EXCEPT
                                !.pc = "loop", !.pos = @ + 1,
                                !.processed_count = @ + 1,
                                !.matched_trips =
                                    IF IsCompletedRecord(record)
                                    THEN Append(@, ExtractStringValue(
                                                      record.NewImage, "trip_id"))
                                    ELSE @]
                    /\ inv' = [inv EXCEPT ![1] =
                          IF r.to = "idle" THEN IdleInvocation
                          ELSE [IdleInvocation EXCEPT
                                  !.pc = r.to, !.src = r.src,
                                  !.trip_id = r.trip_id,
                                  !.event_type = r.event_type,
                                  !.image = <<record.NewImage>>,
                                  !.completedAtStart =
                                      CompletedKey(r.trip_id) \in DOMAIN table]]
    /\ UNCHANGED <<table, stream, now, faulted, ingested, rt, abandoned, ing, norm, mg, kr>>

\* After the loop the handler returns its summary.
MatcherReturns ==
    /\ ing.pc = "returned"
    /\ mh.pc # "returned"
    /\ mh.pos > Len(mh.records)
    /\ \A i \in Invocations : inv[i].pc = "idle"
    /\ mh' = [mh EXCEPT !.pc = "returned"]
    /\ UNCHANGED <<table, stream, inv, now, faulted, ingested, rt, abandoned, ing, norm, mg, kr>>

Next ==
    \/ Tick
    \/ \E payload \in Payloads : IngestRecord(payload)
    \/ \E payload \in EndPayloads : StateRecordArrives(payload)
    \/ \E i \in Invocations : MatcherStart(i)
    \/ \E i \in Invocations, ok \in BOOLEAN : CompletedTripExists(i, ok)
    \/ \E i \in Invocations, ok \in BOOLEAN : FindCounterpartEvent(i, ok)
    \/ \E i \in Invocations, ok \in BOOLEAN : FindStartForOrphanedEnd(i, ok)
    \/ \E i \in Invocations, ok \in BOOLEAN : PutCompleted(i, ok)
    \/ \E i \in Invocations, ok \in BOOLEAN : PutState(i, ok)

Spec == Init /\ [][Next]_vars

\* The system with no STATE record of status ORPHANED_END ever notified: the
\* matcher itself writes none, so these are the runs of producer, ingestion
\* and matcher alone.
NextRaw ==
    \/ Tick
    \/ \E payload \in Payloads : IngestRecord(payload)
    \/ \E i \in Invocations : MatcherStart(i)
    \/ \E i \in Invocations, ok \in BOOLEAN : CompletedTripExists(i, ok)
    \/ \E i \in Invocations, ok \in BOOLEAN : FindCounterpartEvent(i, ok)
    \/ \E i \in Invocations, ok \in BOOLEAN : PutCompleted(i, ok)
    \/ \E i \in Invocations, ok \in BOOLEAN : PutState(i, ok)

SpecRaw == Init /\ [][NextRaw]_vars

-----------------------------------------------------------------------------
(* The system with the table's expiry at work *)

\* The stream record of an item the table has deleted: no NewImage.
RemoveRecord(item) == [eventName |-> "REMOVE", OldImage |-> ToImage(item)]

\* The table deletes a record (its ttl has passed) and notifies the deletion.
Expire ==
    /\ ingested < MaxIngest
    /\ \E k \in DOMAIN table :
         /\ table' = [q \in DOMAIN table \ {k} |-> table[q]]
         /\ stream' = stream \cup {RemoveRecord(table[k])}
    /\ ingested' = ingested + 1
    /\ UNCHANGED <<inv, now, faulted, rt, abandoned, ing, mh, norm, mg, kr>>

\* The steps of the matcher.
MatcherStep ==
    \/ \E i \in Invocations : MatcherStart(i)
    \/ \E i \in Invocations, ok \in BOOLEAN : CompletedTripExists(i, ok)
    \/ \E i \in Invocations, ok \in BOOLEAN : FindCounterpartEvent(i, ok)
    \/ \E i \in Invocations, ok \in BOOLEAN : FindStartForOrphanedEnd(i, ok)
    \/ \E i \in Invocations, ok \in BOOLEAN : PutCompleted(i, ok)
    \/ \E i \in Invocations, ok \in BOOLEAN : PutState(i, ok)

NextFeedback ==
    \/ Tick
    \/ \E payload \in Payloads : IngestRecord(payload)
    \/ \E payload \in EndPayloads : StateRecordArrives(payload)
    \/ Expire
    \/ MatcherStep

SpecFeedback == Init /\ [][NextFeedback]_vars

-----------------------------------------------------------------------------
(* retry(func, max_attempts, backoff) on its own: func's n-th call returns n *)
(* or raises the n-th error.  Delays are in hundredths of a second.         *)

Backoffs == {5, 50}

\* random.uniform(0, 0.1): its two ends
Jitters == {0, 10}

InitRetry ==
    /\ table = <<>>
    /\ stream = {}
    /\ inv = [i \in Invocations |-> IdleInvocation]
    /\ now = 1
    /\ faulted = FALSE
    /\ abandoned = {}
    /\ ing = IdleIngest
    /\ mh = IdleMatcherHandler
    /\ norm = IdleNorm
    /\ mg = IdleMerge
    /\ kr = IdleKeys
    /\ ingested = 0
    /\ rt \in {[IdleRetry EXCEPT !.pc = "call", !.max_attempts = m,
                                 !.backoff = b, !.attempt = 1] :
                  m \in 1..MaxRetryAttempts, b \in Backoffs}

\* One pass of the loop: func is called and returns (ok) or raises.
RetryAttempt(ok, jitter) ==
    /\ rt.pc = "call"
    /\ LET res == RetryOutcome(rt.attempt, rt.max_attempts, ok)
           called == [rt EXCEPT !.calls = @ + 1,
                                !.firstOk = IF ok /\ @ = 0 THEN rt.attempt ELSE @]
       IN  rt' = IF res = "return"
                 THEN [called EXCEPT !.pc = "returned", !.result = <<rt.attempt>>]
                 ELSE IF res = "raise"
                 THEN [called EXCEPT !.pc = "raised", !.error = <<rt.attempt>>]
                 ELSE [called EXCEPT
                         !.attempt = @ + 1,
                         !.sleeps = Append(@,
                             [base |-> SleepBase(rt.backoff, rt.attempt),
                              total |-> SleepBase(rt.backoff, rt.attempt) + jitter])]
    /\ UNCHANGED <<table, stream, inv, now, faulted, ingested, abandoned, ing, mh, norm, mg, kr>>

NextRetry == \E ok \in BOOLEAN, jitter \in Jitters : RetryAttempt(ok, jitter)

SpecRetry == InitRetry /\ [][NextRetry]_vars

-----------------------------------------------------------------------------
(* The two handlers in sequence: the ingestion handler on a batch of Kinesis *)
(* records, then the matcher handler on the stream records of its writes.   *)

\* Short batches: every sequence of up to MaxShort records, each a BEGIN, an
\* END, an END without trip_id or an undecodable record.  Any store call may
\* fail.
ShortPayloads ==
    {p \in BeginPayloads : p.event_type = ProducerBeginType}
    \cup {p \in EndPayloads : FareInRange(p.fare_amount)}
    \cup {WithoutTripId(p) : p \in {q \in EndPayloads : FareInRange(q.fare_amount)}}

ShortInputs ==
    UNION {[1..n -> {Undecodable} \cup {Decodable(p) : p \in ShortPayloads}] :
              n \in 0..MaxShort}

\* Batches of BatchSize records and more: the END of a trip of its own at
\* every position but at most one, which holds a record that fails.  Only the
\* batch write may fail.
BulkRecord(p) ==
    Decodable([trip_id |-> <<ToString(p)>>, event_type |-> ProducerEndType,
               dropoff_datetime |-> DT("naive", 1800), fare_amount |-> 12,
               passenger_count |-> 1])

BadRecords ==
    {Undecodable} \cup {Decodable(WithoutTripId(p)) : p \in EndPayloads}

BulkInputs ==
    {[p \in 1..n |-> IF p = bad THEN b ELSE BulkRecord(p)] :
        n \in BatchSize..(BatchSize + MaxExtra),
        bad \in 0..(BatchSize + MaxExtra),
        b \in BadRecords}

\* The outcomes of the batch write, and of any other store call, in a run
\* whose store calls may fail as faults says.
BatchOutcomes(faults) == IF faults \in {"batch", "any"} THEN BOOLEAN ELSE {TRUE}

CallOutcomes(faults) == IF faults = "any" THEN BOOLEAN ELSE {TRUE}

InitHandlers ==
    /\ table = <<>>
    /\ stream = {}
    /\ inv = [i \in Invocations |-> IdleInvocation]
    /\ now = 1
    /\ faulted = FALSE
    /\ ingested = 0
    /\ rt = IdleRetry
    /\ abandoned = {}
    /\ norm = IdleNorm
    /\ mg = IdleMerge
    /\ kr = IdleKeys
    /\ \/ /\ ing \in {[IdleIngest EXCEPT !.pc = "loop", !.records = r,
                                        !.faults = "any"] : r \in ShortInputs}
          /\ mh \in {[IdleMatcherHandler EXCEPT !.records = pre] :
                        pre \in {<<>>, <<KeysOnlyRecord>>}}
       \/ /\ ing \in {[IdleIngest EXCEPT !.pc = "loop", !.records = r,
                                        !.faults = "batch"] : r \in BulkInputs}
          /\ mh = IdleMatcherHandler

NextHandlers ==
    \/ IngestTakesRecord
    \/ IngestLoopEnds
    \/ \E ok \in BatchOutcomes(ing.faults) : BatchWrite(ok)
    \/ \E ok \in CallOutcomes(ing.faults) : WriteRawEvent(ok)
    \/ MatcherTakesRecord
    \/ MatcherReturns
    \/ \E i \in Invocations, ok \in CallOutcomes(ing.faults) :
          CompletedTripExists(i, ok)
    \/ \E i \in Invocations, ok \in CallOutcomes(ing.faults) :
          FindCounterpartEvent(i, ok)
    \/ \E i \in Invocations, ok \in CallOutcomes(ing.faults) : PutCompleted(i, ok)
    \/ \E i \in Invocations, ok \in CallOutcomes(ing.faults) : PutState(i, ok)

SpecHandlers == InitHandlers /\ [][NextHandlers]_vars

-----------------------------------------------------------------------------
(* process_trip_event on its own *)

\* The values of a payload's fields other than its identity.
OtherFields ==
    [pickup_location_id |-> 10, vendor_id |-> 1,
     pickup_datetime |-> DT("Z", 600), dropoff_datetime |-> DT("naive", 1800),
     fare_amount |-> 12]

\* Payloads with trip_id and event_type missing, empty or set, and any of
\* the other fields present.
NormPayloads ==
    {Sparse([k \in {"trip_id", "event_type"} \cup DOMAIN OtherFields |->
                IF k = "trip_id" THEN t
                ELSE IF k = "event_type" THEN e
                ELSE IF k \in present THEN <<OtherFields[k]>> ELSE <<>>]) :
        t \in {<<>>, <<<<>>>>} \cup {<<x>> : x \in TripIds},
        e \in {<<>>, <<<<>>>>, <<TRIP_BEGIN>>, <<TRIP_START>>, <<TRIP_END>>},
        present \in SUBSET DOMAIN OtherFields}

InitNormalize ==
    /\ table = <<>>
    /\ stream = {}
    /\ inv = [i \in Invocations |-> IdleInvocation]
    /\ now \in 1..MaxClock
    /\ faulted = FALSE
    /\ ingested = 0
    /\ rt = IdleRetry
    /\ abandoned = {}
    /\ ing = IdleIngest
    /\ mh = IdleMatcherHandler
    /\ norm \in {[IdleNorm EXCEPT !.pc = "input", !.payload = <<p>>] :
                    p \in NormPayloads}
    /\ mg = IdleMerge
    /\ kr = IdleKeys

Normalize ==
    /\ norm.pc = "input"
    /\ norm' = [norm EXCEPT
                  !.pc = "done",
                  !.result = <<ProcessTripEvent(norm.payload[1], now)>>]
    /\ UNCHANGED <<table, stream, inv, now, faulted, ingested, rt, abandoned, ing, mh, mg, kr>>

NextNormalize == Normalize

SpecNormalize == InitNormalize /\ [][NextNormalize]_vars

-----------------------------------------------------------------------------
(* _merge_trip_events on its own *)

\* pickup_datetime of the start event and dropoff_datetime of the end event:
\* missing, without offset, with offset, or not a datetime.
MergePickups ==
    {<<>>, <<DT("naive", 600)>>, <<DT("naive", 1800)>>, <<DT("utc", 600)>>,
     <<DT("bad", 0)>>}

MergeDropoffs ==
    {<<>>, <<DT("naive", 1800)>>, <<DT("utc", 1800)>>, <<DT("bad", 0)>>}

\* estimated_fare_amount of the start event and fare_amount of the end event
MergeEstimates == {<<>>, <<0>>, <<10>>}

MergeFares == {<<>>, <<0>>, <<12>>}

MergeStartEvents ==
    {Sparse([event_type |-> <<ProducerBeginType>>, pickup_location_id |-> <<10>>,
             pickup_datetime |-> p, estimated_fare_amount |-> f]) :
        p \in MergePickups, f \in MergeEstimates}

MergeEndEvents ==
    {Sparse([event_type |-> <<ProducerEndType>>, passenger_count |-> <<1>>,
             dropoff_datetime |-> d, fare_amount |-> f]) :
        d \in MergeDropoffs, f \in MergeFares}

InitMerge ==
    /\ table = <<>>
    /\ stream = {}
    /\ inv = [i \in Invocations |-> IdleInvocation]
    /\ now \in 1..MaxClock
    /\ faulted = FALSE
    /\ ingested = 0
    /\ rt = IdleRetry
    /\ abandoned = {}
    /\ ing = IdleIngest
    /\ mh = IdleMatcherHandler
    /\ norm = IdleNorm
    /\ kr = IdleKeys
    /\ mg \in {[IdleMerge EXCEPT !.pc = "input", !.start_event = <<b>>,
                                !.end_event = <<e>>] :
                  b \in MergeStartEvents, e \in MergeEndEvents}

Merge ==
    /\ mg.pc = "input"
    /\ \E trip_id \in TripIds :
         mg' = [mg EXCEPT
                  !.pc = "done",
                  !.result = <<MergeTripEvents(trip_id, mg.start_event[1],
                                               mg.end_event[1], now)>>]
    /\ UNCHANGED <<table, stream, inv, now, faulted, ingested, rt, abandoned, ing, mh, norm, kr>>

NextMerge == Merge

SpecMerge == InitMerge /\ [][NextMerge]_vars

-----------------------------------------------------------------------------
(* Sort keys on their own: process_trip_event composes the keys of two       *)
(* payloads, _handle_raw_event parses them and _find_counterpart_event       *)
(* queries them by kind.                                                     *)

\* Trip ids the ingestion path accepts: any non-empty string.
KeyTripIds == {<<"a">>, <<"b">>, <<"a", "#", "b">>}

\* Event types the ingestion path accepts: any non-empty string.
KeyEventTypes == {TRIP_BEGIN, TRIP_START, TRIP_END, <<"trip_end", "_v2">>}

\* The kinds the matcher queries for.
QueriedKinds == {CounterpartType(TRIP_START), CounterpartType(TRIP_BEGIN),
                 StateCounterpartType}

KeyPayloads ==
    {[trip_id |-> t, event_type |-> e] : t \in KeyTripIds, e \in KeyEventTypes}

InitKeys ==
    /\ table = <<>>
    /\ stream = {}
    /\ inv = [i \in Invocations |-> IdleInvocation]
    /\ now = 1
    /\ faulted = FALSE
    /\ ingested = 0
    /\ rt = IdleRetry
    /\ abandoned = {}
    /\ ing = IdleIngest
    /\ mh = IdleMatcherHandler
    /\ norm = IdleNorm
    /\ mg = IdleMerge
    /\ kr \in {[IdleKeys EXCEPT !.pc = "input", !.payloads = <<p, q>>] :
                  p, q \in KeyPayloads}

\* The two payloads are ingested one after the other, the matcher parses the
\* sort key of each RAW record and queries each trip for each kind.
ComposeAndRead ==
    /\ kr.pc = "input"
    /\ LET first == ProcessTripEvent(kr.payloads[1], now).item[1]
           second == ProcessTripEvent(kr.payloads[2], now + 1).item[1]
           tbl == PutItem(PutItem(<<>>, first), second)
           trips == {first.trip_id, second.trip_id}
       IN  kr' = [kr EXCEPT
                    !.pc = "read",
                    !.items = <<first, second>>,
                    !.parsed = <<SkEventType(first.sk), SkEventType(second.sk)>>,
                    !.found = [q \in trips \X QueriedKinds |->
                                 Query(tbl, q[1], CounterpartPrefix(q[1], q[2]))]]
    /\ UNCHANGED <<table, stream, inv, now, faulted, ingested, rt, abandoned, ing, mh, norm, mg>>

NextKeys == ComposeAndRead

SpecKeys == InitKeys /\ [][NextKeys]_vars

-----------------------------------------------------------------------------
(* Properties *)

HasCompleted(tbl, trip_id) == CompletedKey(trip_id) \in DOMAIN tbl

\* The status of the trip's STATE record, NO_RECORD when there is none.
StateStatus(tbl, trip_id) ==
    IF StateKey(trip_id) \in DOMAIN tbl THEN tbl[StateKey(trip_id)].status
    ELSE "NO_RECORD"

\* The RAW items of a trip of the given kinds.
RawOfKinds(tbl, trip_id, kinds) ==
    {tbl[k] : k \in {q \in DOMAIN tbl :
                       /\ q[1] = trip_id
                       /\ "event_type" \in DOMAIN tbl[q]
                       /\ tbl[q].event_type \in kinds}}

\* No record is waiting and no invocation is running.
Quiescent == stream = {} /\ \A i \in Invocations : inv[i].pc = "idle"

\* A COMPLETED item without its completion and processing timestamps.
Content(item) ==
    [k \in DOMAIN item \ {"completion_timestamp", "processing_date", "ttl"} |->
        item[k]]

\* C1: of two matcher invocations for the same trip that both found no
\* COMPLETED record in their existence check, at most one writes the
\* COMPLETED record; the other's write is rejected.
C1_OneWriterWins ==
    \A i, j \in Invocations :
        (/\ i # j
         /\ inv[i].trip_id = inv[j].trip_id
         /\ inv[i].sawAbsent /\ inv[j].sawAbsent)
        => ~(inv[i].wrote /\ inv[j].wrote)

\* C2: once a trip's COMPLETED record is written, no later step changes it.
C2_CompletedImmutable ==
    [][\A t \in TripIds :
          HasCompleted(table, t) =>
              table'[CompletedKey(t)] = table[CompletedKey(t)]]_vars

\* C3: when one BEGIN and one END of the producer's kinds have been ingested
\* for a trip, each notified to the matcher on its own, and every record has
\* been handled with no store failure, the COMPLETED record exists and holds
\* the merge of the two, whichever of the two was delivered first.
C3_BothOrdersComplete ==
    \A t \in TripIds :
        LET begins == RawOfKinds(table, t, {ProducerBeginType})
            ends == RawOfKinds(table, t, {ProducerEndType})
        IN  (/\ Quiescent /\ ~faulted /\ ingested = 2
             /\ Cardinality(begins) = 1 /\ Cardinality(ends) = 1)
            => /\ HasCompleted(table, t)
               /\ \A b \in begins, e \in ends :
                    Content(table[CompletedKey(t)]) =
                        Content(MergeTripEvents(t, b, e, now))

\* C4: an invocation that takes its notification when the trip's COMPLETED
\* record already exists writes nothing.
C4_NoWriteOnceCompleted ==
    \A i \in Invocations : inv[i].completedAtStart => ~inv[i].wrote

\* C5: the STATE(COMPLETED) write is reached only after this invocation's
\* COMPLETED write succeeded, and a STATE record of status COMPLETED in the
\* table implies the trip's COMPLETED record is in the table.
C5_StateAfterCompleted ==
    /\ \A i \in Invocations :
         inv[i].pc = "putS" =>
             inv[i].wrote /\ HasCompleted(table, inv[i].trip_id)
    /\ \A t \in TripIds :
         StateStatus(table, t) = "COMPLETED" => HasCompleted(table, t)

\* C5 witness: a STATE record of status COMPLETED has been written, after a
\* store call failed.
C5_Witness ==
    \E t \in TripIds : StateStatus(table, t) = "COMPLETED" /\ faulted

\* C6: the counterpart the RAW handler merges with is the one of greatest
\* sort key among the counterpart records the query returns.
C6_LatestCounterpart ==
    [][\A i \in Invocations :
          (inv[i].pc = "query" /\ inv'[i].pc = "putC") =>
              LET items == Query(table, inv[i].trip_id,
                                 CounterpartPrefix(inv[i].trip_id,
                                     CounterpartType(inv[i].event_type)))
                  chosen == IF inv[i].event_type = TRIP_START
                            THEN inv'[i].end_event[1]
                            ELSE inv'[i].start_event[1]
              IN  \A n \in 1..Len(items) : ~StrLess(chosen.sk, items[n].sk)]_vars

\* C7: when the handling of an END notification ends with no BEGIN record of
\* the trip in the table, the trip's STATE record has status ORPHANED_END and
\* carries the END payload, and no COMPLETED record was written.
C7_OrphanedEndRecorded ==
    [][\A i \in Invocations :
          (/\ inv[i].pc = "query" /\ inv[i].event_type = TRIP_END
           /\ inv'[i].pc = "idle" /\ ~faulted'
           /\ RawOfKinds(table, inv[i].trip_id, {TRIP_BEGIN, TRIP_START}) = {})
          => /\ StateStatus(table', inv[i].trip_id) = "ORPHANED_END"
             /\ "end_event" \in DOMAIN table'[StateKey(inv[i].trip_id)]
             /\ ~HasCompleted(table', inv[i].trip_id)]_vars

\* C8: when the handling of an ORPHANED_END STATE notification ends, with a
\* BEGIN record as the ingestion path persists it in the table and no store
\* failure, the COMPLETED record is written with the END's fields and the
\* STATE record has status COMPLETED.
C8_OrphanedEndCompletes ==
    [][\A i \in Invocations :
          (/\ inv[i].src = "STATE" /\ inv[i].pc # "idle" /\ inv'[i].pc = "idle"
           /\ ~faulted'
           /\ RawOfKinds(table, inv[i].trip_id, {ProducerBeginType}) # {})
          => /\ HasCompleted(table', inv[i].trip_id)
             /\ "dropoff_datetime" \in DOMAIN table'[CompletedKey(inv[i].trip_id)]
             /\ StateStatus(table', inv[i].trip_id) = "COMPLETED"]_vars

StatusPath ==
    {<<"NO_RECORD", "PENDING">>, <<"PENDING", "COMPLETED">>,
     <<"NO_RECORD", "ORPHANED_END">>, <<"ORPHANED_END", "COMPLETED">>}

\* C9: the status of a trip's STATE record changes only along
\* NO_RECORD -> PENDING -> COMPLETED or NO_RECORD -> ORPHANED_END -> COMPLETED.
C9_StatusPath ==
    [][\A t \in TripIds :
          StateStatus(table', t) # StateStatus(table, t) =>
              <<StateStatus(table, t), StateStatus(table', t)>> \in StatusPath]_vars

\* C10: when func fails on every attempt, retry calls it exactly max_attempts
\* times, sleeps after every failed attempt but the last, with base delays
\* backoff * 2^(attempt-1) that strictly increase, and raises the error of
\* the last attempt.
C10_RetryExhaustion ==
    /\ rt.pc = "raised" =>
         /\ rt.calls = rt.max_attempts
         /\ rt.error = <<rt.max_attempts>>
         /\ Len(rt.sleeps) = rt.max_attempts - 1
         /\ \A k \in 1..Len(rt.sleeps) :
              rt.sleeps[k].base = rt.backoff * (2 ^ (k - 1))
         /\ \A k \in 1..(Len(rt.sleeps) - 1) :
              rt.sleeps[k].base < rt.sleeps[k + 1].base
    /\ (rt.result = <<>> /\ rt.calls >= rt.max_attempts) => rt.pc = "raised"

\* C10 witness: retry with the default three attempts has raised after two
\* sleeps.
C10_Witness ==
    rt.pc = "raised" /\ rt.max_attempts = DefaultMaxAttempts /\ Len(rt.sleeps) = 2

\* Both halves of the trip, of the producer's kinds, are among the RAW records.
BothHalves(tbl, trip_id) ==
    /\ RawOfKinds(tbl, trip_id, {ProducerBeginType}) # {}
    /\ RawOfKinds(tbl, trip_id, {ProducerEndType}) # {}

\* No invocation other than i is handling a record.
Alone(i) == \A j \in Invocations \ {i} : inv[j].pc = "idle"

\* The stream record is the notification of a RAW record of the trip.
RawNotificationOf(record, trip_id) ==
    /\ ExtractStringValue(record.NewImage, "trip_id") = <<trip_id>>
    /\ StartsWith(ExtractStringValue(record.NewImage, "sk")[1], <<"RAW", "#">>)

\* Invocation i can end its handling with this step without a store call of
\* the step having failed: the existence check answered, a query that works
\* finds nothing, or the STATE put succeeds at its first attempt.
HealthyEnd(i) ==
    \/ inv[i].pc = "check"
    \/ /\ inv[i].pc = "query"
       /\ FindCounterpart(table, inv[i].trip_id,
                          CounterpartType(inv[i].event_type), TRUE) = <<>>
    \/ inv[i].pc = "putS" /\ inv[i].attempt = 1

\* The trip is completed: COMPLETED record and STATE record of status COMPLETED.
Done(tbl, trip_id) ==
    HasCompleted(tbl, trip_id) /\ StateStatus(tbl, trip_id) = "COMPLETED"

\* C11: every store call of the matcher goes through the retry wrapper: the
\* first failure of the existence get or of the counterpart query leaves the
\* invocation at the same call, to be tried again, instead of being taken as
\* an answer.
C11_StoreCallsRetried ==
    [][\A i \in Invocations :
          (inv[i].pc \in {"check", "query"} /\ ~faulted /\ faulted')
          => inv'[i].pc = inv[i].pc]_vars

\* C17: once a trip's match was abandoned because the COMPLETED put failed on
\* all attempts, every later RAW notification of the trip that is handled
\* with no store failure, both halves present and no other invocation
\* running, ends with the COMPLETED record and the STATE record of status
\* COMPLETED in the table.
C17_Redrive ==
    [][\A t \in TripIds :
          (t \in abandoned /\ BothHalves(table, t))
          => /\ \A record \in stream \ stream' :
                  (inv' = inv /\ Alone(1) /\ inv[1].pc = "idle"
                   /\ RawNotificationOf(record, t))
                  => Done(table', t)
             /\ \A i \in Invocations :
                  (/\ inv[i].src = "RAW" /\ inv[i].trip_id = t
                   /\ inv[i].pc # "idle" /\ inv'[i].pc = "idle"
                   /\ Alone(i) /\ HealthyEnd(i))
                  => Done(table', t)]_vars

\* C18: when a RAW notification is handled for a trip whose COMPLETED record
\* exists, with the store answering and no other invocation running, the
\* trip's STATE record has status COMPLETED when the handling ends.
C18_StateRepaired ==
    [][\A i \in Invocations :
          (/\ inv[i].src = "RAW" /\ inv[i].pc = "check" /\ inv'[i].pc = "idle"
           /\ Alone(i)
           /\ HasCompleted(table, inv[i].trip_id))
          => StateStatus(table', inv[i].trip_id) = "COMPLETED"]_vars

\* C19: no RAW record and no COMPLETED record carries a fare_amount outside
\* [0, 1000], a passenger_count outside [0, 8] or a pickup_location_id outside
\* [1, 300]: a value out of range is dropped by normalization.
C19_OutOfRangeDropped ==
    \A k \in DOMAIN table :
        (StartsWith(k[2], <<"RAW", "#">>) \/ k[2] = CompletedSk(k[1]))
        => /\ "fare_amount" \in DOMAIN table[k]
                => FareInRange(table[k].fare_amount)
           /\ "passenger_count" \in DOMAIN table[k]
                => PassengersInRange(table[k].passenger_count)
           /\ "pickup_location_id" \in DOMAIN table[k]
                => LocationInRange(table[k].pickup_location_id)

\* The Kinesis record decodes and process_trip_event returns an item for it.
Normalizes(record) ==
    record.data # <<>> /\ ProcessTripEvent(record.data[1], now).ok

\* The Kinesis record decodes to a payload with no trip_id.
LacksTripId(record) ==
    record.data # <<>> /\ "trip_id" \notin DOMAIN record.data[1]

\* The positions of the batch's records that normalize, and of those that
\* do not.
GoodPositions == {p \in 1..Len(ing.records) : Normalizes(ing.records[p])}

BadPositions == {p \in 1..Len(ing.records) : ~Normalizes(ing.records[p])}

\* The positions that were part of a flush.
Flushed == UNION {ing.flushes[n].items : n \in 1..Len(ing.flushes)}

\* C12: when the ingestion handler returns, every record of the batch whose
\* payload has no trip_id has caused no store write and exactly one
\* dead-letter send.
C12_MissingIdDeadLettered ==
    ing.pc = "returned" =>
        \A p \in 1..Len(ing.records) :
            LacksTripId(ing.records[p]) =>
                /\ p \notin Flushed \cup ing.tried \cup ing.written
                /\ Cardinality({n \in 1..Len(ing.dlq) : ing.dlq[n].pos = p}) = 1

\* C13: neither handler raises; every record of the ingestion batch that
\* normalizes is added to the batch and gets a store write attempt, wherever
\* the failing records are, and every stream record is handed to the matcher
\* or counted as an error; the summaries account for every record.
C13_ErrorsIsolated ==
    /\ ing.pc # "raised" /\ mh.pc # "raised"
    /\ \A p \in GoodPositions :
         p < ing.pos => p \in Flushed \cup Positions(ing.batch_items)
    /\ ing.pc = "returned" =>
         /\ ing.pos = Len(ing.records) + 1
         /\ GoodPositions \subseteq Flushed
         /\ ing.processed_count + ing.error_count = Len(ing.records)
         /\ ing.error_count = Cardinality(BadPositions)
    /\ mh.pc = "returned" =>
         /\ mh.pos = Len(mh.records) + 1
         /\ mh.processed_count + mh.error_count = Len(mh.records)
         /\ mh.error_count =
              Cardinality({n \in 1..Len(mh.records) : RecordRaises(mh.records[n])})

\* C13 witness: both handlers have returned, the ingestion batch had a record
\* that fails between two that normalize, a store call failed, and the
\* matcher counted an error and still handled records.
C13_Witness ==
    /\ ing.pc = "returned" /\ mh.pc = "returned" /\ faulted
    /\ \E p \in BadPositions : \E q, r \in GoodPositions : q < p /\ p < r
    /\ mh.error_count > 0 /\ mh.processed_count > 0

\* C14: when the batch write of a flush failed, every item of the flush gets
\* an individual write, each retried until it is written or its retries are
\* used up, whatever became of the items before it.
C14_FallbackWritesEach ==
    /\ \A n \in 1..Len(ing.flushes) :
         (~ing.flushes[n].batch_ok /\ (n < Len(ing.flushes) \/ ing.pc # "single"))
         => \A p \in ing.flushes[n].items :
                p \in ing.tried /\ (p \in ing.written \/ p \in ing.lost)
    /\ ing.pc = "single" =>
         \A k \in 1..(ing.idx - 1) :
            LET p == ing.batch_items[k].pos
            IN  p \in ing.tried /\ (p \in ing.written \/ p \in ing.lost)

\* C14 witness: the handler has returned after a fallback in which an item's
\* retries were used up and a later item of the same flush was written.
C14_Witness ==
    /\ ing.pc = "returned"
    /\ \E n \in 1..Len(ing.flushes) :
         /\ ~ing.flushes[n].batch_ok
         /\ \E p, q \in ing.flushes[n].items :
              p < q /\ p \in ing.lost /\ q \in ing.written

\* C15: the batch never holds more than 25 items, every flush holds between
\* 1 and 25 items, only of records that normalize, and when the handler
\* returns every record that normalizes is in exactly one flush.
C15_BatchBounded ==
    /\ Len(ing.batch_items) <= BatchSize
    /\ \A n \in 1..Len(ing.flushes) :
         /\ Cardinality(ing.flushes[n].items) >= 1
         /\ Cardinality(ing.flushes[n].items) <= BatchSize
         /\ ing.flushes[n].items \subseteq GoodPositions
    /\ ing.pc = "returned" =>
         \A p \in GoodPositions :
            Cardinality({n \in 1..Len(ing.flushes) : p \in ing.flushes[n].items}) = 1

\* C15 witness: the handler has returned after a flush of a full batch and a
\* flush of the remaining items, one record of the input having failed.
C15_Witness ==
    /\ ing.pc = "returned"
    /\ Len(ing.flushes) = 2
    /\ Cardinality(ing.flushes[1].items) = BatchSize
    /\ BadPositions # {}

\* C16: when the ingestion handler returns, the records whose write failed in
\* the batch attempt and in every individual attempt are not counted as
\* processed, and each is in the error count or was sent to the dead-letter
\* sink.
C16_LostWriteEscalated ==
    ing.pc = "returned" =>
        /\ ing.processed_count <= Cardinality(GoodPositions) - Cardinality(ing.lost)
        /\ ing.error_count - Cardinality(BadPositions) + Len(ing.dlq)
              >= Cardinality(ing.lost)

\* C20: process_trip_event raises, and returns no item, exactly when trip_id
\* or event_type is missing or empty; otherwise it returns a RAW item that
\* carries every field of the payload, whichever other fields are absent.
C20_IdentityRequired ==
    norm.pc = "done" =>
        LET payload == norm.payload[1]
            r == norm.result[1]
            missing == \E k \in {"trip_id", "event_type"} :
                           k \notin DOMAIN payload \/ payload[k] = <<>>
        IN  /\ ~r.ok <=> missing
            /\ ~r.ok => r.item = <<>>
            /\ r.ok => /\ r.item # <<>>
                       /\ StartsWith(r.item[1].sk, <<"RAW", "#">>)
                       /\ \A k \in DOMAIN payload : k \in DOMAIN r.item[1]
                       /\ r.item[1].trip_id = payload.trip_id
                       /\ r.item[1].event_type = payload.event_type

\* C20 witness: an END payload with none of dropoff_datetime, fare_amount or
\* any other field has been given a RAW item.
C20_Witness ==
    /\ norm.pc = "done"
    /\ norm.result[1].ok
    /\ DOMAIN norm.payload[1] = {"trip_id", "event_type"}
    /\ norm.payload[1].event_type = TRIP_END

\* The keys of the RAW records, and of the COMPLETED records of a trip.
RawKeys(tbl) == {k \in DOMAIN tbl : StartsWith(k[2], <<"RAW", "#">>)}

CompletedKeys(tbl, trip_id) ==
    {k \in DOMAIN tbl : k[1] = trip_id /\ StartsWith(k[2], <<"COMPLETED", "#">>)}

\* The kind names of a begin event and of an end event.
BeginKinds == {TRIP_BEGIN, TRIP_START}

EndKinds == {TRIP_END}

\* C21: every ingested half-event adds a RAW record of its own, also when the
\* same half-event was ingested before: none collapses into or overwrites
\* another; and a trip never has more than one COMPLETED record.
C21_DuplicatesKept ==
    [][/\ ingested' = ingested + 1 =>
            Cardinality(RawKeys(table')) = Cardinality(RawKeys(table)) + 1
       /\ \A t \in TripIds : Cardinality(CompletedKeys(table', t)) <= 1]_vars

\* C22: the kind the RAW handler queries is the opposite of the notified
\* kind, for each begin kind and each end kind, and the merge takes a begin
\* record as start_event and an end record as end_event.
C22_CounterpartOpposite ==
    \A i \in Invocations :
        /\ (inv[i].src = "RAW" /\ inv[i].pc = "query") =>
              /\ inv[i].event_type \in BeginKinds
                    => CounterpartType(inv[i].event_type) \in EndKinds
              /\ inv[i].event_type \in EndKinds
                    => CounterpartType(inv[i].event_type) \in BeginKinds
        /\ (inv[i].src = "RAW" /\ inv[i].pc = "putC") =>
              /\ inv[i].start_event[1].event_type \in BeginKinds
              /\ inv[i].end_event[1].event_type \in EndKinds

\* C23: trip_duration_seconds of the COMPLETED record is dropoff_datetime
\* minus pickup_datetime in seconds when both are present and parse, 0
\* included, and is absent exactly when one is missing or does not parse.
C23_DurationDerived ==
    mg.pc = "done" =>
        LET b == mg.start_event[1]
            e == mg.end_event[1]
            c == mg.result[1]
            both == /\ "pickup_datetime" \in DOMAIN b
                    /\ "dropoff_datetime" \in DOMAIN e
                    /\ b.pickup_datetime.form # "bad"
                    /\ e.dropoff_datetime.form # "bad"
        IN  /\ both => /\ "trip_duration_seconds" \in DOMAIN c
                       /\ c.trip_duration_seconds =
                             e.dropoff_datetime.secs - b.pickup_datetime.secs
            /\ ~both => "trip_duration_seconds" \notin DOMAIN c

\* C24: fare_variance of the COMPLETED record is the end event's fare_amount
\* minus the start event's estimated_fare_amount when both are present, 0
\* included, and is absent exactly when one is missing; a missing fare is
\* missing in the COMPLETED record too.
C24_VarianceDerived ==
    mg.pc = "done" =>
        LET b == mg.start_event[1]
            e == mg.end_event[1]
            c == mg.result[1]
            both == /\ "estimated_fare_amount" \in DOMAIN b
                    /\ "fare_amount" \in DOMAIN e
        IN  /\ both => /\ "fare_variance" \in DOMAIN c
                       /\ c.fare_variance =
                             e.fare_amount - b.estimated_fare_amount
            /\ ~both => "fare_variance" \notin DOMAIN c
            /\ "estimated_fare_amount" \notin DOMAIN b
                  => "estimated_fare_amount" \notin DOMAIN c
            /\ "fare_amount" \notin DOMAIN e => "fare_amount" \notin DOMAIN c

\* The clock value an isoformat() timestamp was made from.
InstantOf(timestamp) ==
    CHOOSE t \in 0..(Len(Alphabet) - 1) : IsoFormat(t) = timestamp

\* The clock value an item's own timestamp names.
WrittenAt(item) ==
    IF StartsWith(item.sk, <<"RAW", "#">>) THEN InstantOf(item.ingestion_timestamp)
    ELSE IF StartsWith(item.sk, <<"STATE", "#">>) THEN InstantOf(item.last_updated)
    ELSE InstantOf(item.completion_timestamp)

\* C25: every record in the table carries ttl, equal to the instant of its
\* own timestamp plus 7 days for a RAW record, 30 days for a STATE record and
\* 90 days for a COMPLETED record, so that of records made at the same
\* instant the RAW one expires first and the COMPLETED one last.
C25_ExpirySet ==
    /\ \A k \in DOMAIN table :
         /\ "ttl" \in DOMAIN table[k]
         /\ table[k].ttl = WrittenAt(table[k]) +
              (IF StartsWith(k[2], <<"RAW", "#">>) THEN 7 * 86400
               ELSE IF StartsWith(k[2], <<"STATE", "#">>) THEN 30 * 86400
               ELSE 90 * 86400)
    /\ \A r, x, c \in DOMAIN table :
         (/\ StartsWith(r[2], <<"RAW", "#">>)
          /\ StartsWith(x[2], <<"STATE", "#">>)
          /\ StartsWith(c[2], <<"COMPLETED", "#">>)
          /\ WrittenAt(table[r]) = WrittenAt(table[x])
          /\ WrittenAt(table[x]) = WrittenAt(table[c]))
         => table[r].ttl < table[x].ttl /\ table[x].ttl < table[c].ttl

\* C25 witness: a RAW, a STATE and a COMPLETED record made at the same
\* instant are in the table.
C25_Witness ==
    \E r, x, c \in DOMAIN table :
        /\ StartsWith(r[2], <<"RAW", "#">>)
        /\ StartsWith(x[2], <<"STATE", "#">>)
        /\ StartsWith(c[2], <<"COMPLETED", "#">>)
        /\ WrittenAt(table[r]) = WrittenAt(table[x])
        /\ WrittenAt(table[x]) = WrittenAt(table[c])

\* The stream record notifies a write of the matcher itself or a deletion.
FeedbackRecord(record) ==
    \/ record.eventName = "REMOVE"
    \/ LET sk == ExtractStringValue(record.NewImage, "sk")[1]
       IN  \/ StartsWith(sk, <<"COMPLETED", "#">>)
           \/ /\ StartsWith(sk, <<"STATE", "#">>)
              /\ ExtractStringValue(record.NewImage, "status") = <<"COMPLETED">>

\* The store calls an invocation can still make from where it is, each put
\* counted with the notification it produces.
StepsLeft(h) ==
    IF h.pc = "putS" THEN 5 - h.attempt
    ELSE IF h.pc = "putC" THEN 9 - h.attempt
    ELSE IF h.pc \in {"query", "squery"} THEN 9
    ELSE IF h.pc = "check" THEN 10
    ELSE 0

\* The matcher steps a pending notification can still cause.
RecordWeight(record) == IF FeedbackRecord(record) THEN 1 ELSE 11

RECURSIVE StreamWeight(_)
StreamWeight(records) ==
    IF records = {} THEN 0
    ELSE LET record == CHOOSE x \in records : TRUE
         IN  RecordWeight(record) + StreamWeight(records \ {record})

RECURSIVE RunningWeight(_)
RunningWeight(n) ==
    IF n = 0 THEN 0 ELSE StepsLeft(inv[n]) + RunningWeight(n - 1)

\* A bound on the matcher steps still to come when nothing more is ingested.
MatcherRank == StreamWeight(stream) + RunningWeight(NumInvocations)

\* C26: the notification of a COMPLETED record, of a STATE record of status
\* COMPLETED or of a deletion is taken off the stream with no store write and
\* no further work; and every matcher step (a step that takes a notification
\* or moves an invocation, nothing being ingested or deleted) lowers a
\* non-negative bound on the matcher steps still to come, so that with nothing
\* more ingested the matcher comes to rest, no notification pending, after
\* finitely many steps.
C26_NoSelfFeeding ==
    [][/\ \A record \in stream \ stream' :
             FeedbackRecord(record) =>
                 /\ table' = table
                 /\ inv' = inv
                 /\ stream' = stream \ {record}
       /\ (ingested' = ingested /\ (stream' # stream \/ inv' # inv)) =>
             MatcherRank' < MatcherRank
       /\ MatcherRank >= 0
       /\ (MatcherRank = 0) = Quiescent]_vars

\* C26 witness: the matcher is at rest after the notifications of its own
\* COMPLETED and STATE writes and of a deletion were delivered to it.
C26_Witness ==
    /\ Quiescent
    /\ \E t \in TripIds : Done(table, t)
    /\ RawKeys(table) = {}

\* The sum of the values of a dict of counts.
RECURSIVE SumOfCounts(_)
SumOfCounts(d) ==
    IF DOMAIN d = {} THEN 0
    ELSE LET k == CHOOSE x \in DOMAIN d : TRUE
         IN  d[k] + SumOfCounts([x \in DOMAIN d \ {k} |-> d[x]])

\* The positions of the batch's records that normalize to the given kind.
PositionsOfKind(event_type) ==
    {p \in GoodPositions : ing.records[p].data[1].event_type = event_type}

\* C27: in the summary the ingestion handler returns, every record of the
\* batch is counted once, as processed when it normalized and as an error
\* when it did not, so that processed + errors is the size of the batch;
\* events_by_type counts the processed records of each kind and its values
\* sum to processed; and in the matcher's summary processed + errors is the
\* number of stream records.
C27_SummaryAccounts ==
    /\ ing.pc = "returned" =>
         /\ ing.processed_count = Cardinality(GoodPositions)
         /\ ing.error_count = Cardinality(BadPositions)
         /\ ing.processed_count + ing.error_count = Len(ing.records)
         /\ SumOfCounts(ing.events_by_type) = ing.processed_count
         /\ \A k \in DOMAIN ing.events_by_type :
              ing.events_by_type[k] = Cardinality(PositionsOfKind(k))
         /\ \A p \in GoodPositions :
              ing.records[p].data[1].event_type \in DOMAIN ing.events_by_type
    /\ mh.pc = "returned" =>
         mh.processed_count + mh.error_count = Len(mh.records)

\* C27 witness: both handlers have returned summaries with processed records
\* and errors, the ingestion one with several records of one kind.
C27_Witness ==
    /\ ing.pc = "returned" /\ mh.pc = "returned"
    /\ ing.error_count > 0
    /\ \E k \in DOMAIN ing.events_by_type : ing.events_by_type[k] >= 2
    /\ mh.error_count > 0 /\ mh.processed_count > 0

\* C28: when func first succeeds at its k-th call, retry has returned the
\* result of that call, after exactly k calls and k - 1 sleeps; func is not
\* called again after a success, never more than max_attempts times, and
\* retry returns only what a successful call returned.
C28_RetryReturnsFirstSuccess ==
    /\ rt.firstOk # 0 =>
         /\ rt.pc = "returned"
         /\ rt.result = <<rt.firstOk>>
         /\ rt.calls = rt.firstOk
         /\ Len(rt.sleeps) = rt.firstOk - 1
         /\ rt.firstOk <= rt.max_attempts
    /\ rt.calls <= rt.max_attempts
    /\ rt.pc = "returned" => rt.firstOk # 0

\* C28 witness: func succeeded at its third call, after two failures.
C28_Witness ==
    rt.pc = "returned" /\ rt.firstOk = 3 /\ rt.max_attempts > 3

\* The elements of a sequence.
Range(seq) == {seq[n] : n \in 1..Len(seq)}

\* C29: the event type the matcher parses from a sort key composed by the
\* ingestion path is the event type of the payload, and the query for a kind
\* returns the RAW records of the trip that are of this kind, and no other.
C29_KeyRoundTrip ==
    kr.pc = "read" =>
        /\ \A n \in 1..Len(kr.payloads) :
             kr.parsed[n] = <<kr.payloads[n].event_type>>
        /\ \A q \in DOMAIN kr.found :
             Range(kr.found[q]) =
                 {item \in Range(kr.items) :
                      item.trip_id = q[1] /\ item.event_type = q[2]}

====
